---- MODULE Spec2Model ----
(***************************************************************************)
(* Order pipeline: the admission route (POST /orders), the read route      *)
(* (GET /orders/:order_id) and the worker's processOrders loop with its    *)
(* shutdown handler, over a Redis stream (Queue), Redis keys (Cache) and   *)
(* the MySQL orders table (Store).                                         *)
(*                                                                         *)
(* Money is a pair [w, f]: w whole units, f the fraction in 1/100000, so   *)
(* that the admission ceiling 999999.9999 and the DECIMAL(12,4) rounding   *)
(* of the orders table are both representable in 32-bit arithmetic.        *)
(***************************************************************************)
EXTENDS Integers, Sequences, FiniteSets, TLC

\* ------------------------------------------------------------------ bounds
MaxQueue == 2
NumWorkers == 2
NumClients == 1
TickSeconds == 1800
MaxRedeliver == 3

\* --------------------------------------------------------- program numbers
CacheTtl == 3600
maxConsecutiveErrors == 5
BackoffBaseMs == 1000
BackoffCapMs == 30000
MaxOrderIdLen == 100
RoundScale == 10000
\* Money keeps one digit more than the four the worker rounds to
FracScale == 10 * RoundScale

Workers == 1..NumWorkers
Clients == 1..NumClients

\* ------------------------------------------------------------------- money
Num(w, f) == [k |-> "num", w |-> w, f |-> f]
NaN == [k |-> "nan", w |-> 0, f |-> 0]
Infinity == [k |-> "inf", w |-> 0, f |-> 0]
Undefined == [k |-> "undef", w |-> 0, f |-> 0]

\* amount > 0 for a finite number
IsPositive(a) == a.w > 0 \/ (a.w = 0 /\ a.f > 0)

\* a <= b for finite numbers
NumLE(a, b) == a.w < b.w \/ (a.w = b.w /\ a.f <= b.f)

\* 999999.9999, the admission ceiling
MaxAmount == Num(999999, 99990)

\* Number.isFinite
IsFinite(a) == a.k = "num"

\* JS truthiness of a request-body amount: undefined, NaN and 0 are falsy
Truthy(a) == a.k = "inf" \/ (a.k = "num" /\ ~(a.w = 0 /\ a.f = 0))

\* Amounts whose double product amount * 0.18 * 10000 lands just below the
\* exact .5 tie (0.0075 * 0.18 * 10000 = 13.499999999999998 in IEEE double),
\* so that Math.round goes down where exact arithmetic would round up.
DoubleBelowTie == {Num(0, 750)}

\* Math.round(amountNum * 0.18 * 10000) / 10000, in 1/10000 units
TaxUnits(a) ==
  a.w * 1800 + ((a.f * 18 + 500) \div 1000)
    - (IF a \in DoubleBelowTie THEN 1 ELSE 0)

Tax(a) ==
  LET t == TaxUnits(a) IN Num(t \div RoundScale, (t % RoundScale) * 10)

\* Rounding a non-negative number to 4 fractional digits, half up
Round4(a) ==
  LET r == (a.f + 5) \div 10
  IN IF r * 10 >= FracScale THEN Num(a.w + 1, 0) ELSE Num(a.w, r * 10)

Plus(a, b) ==
  LET s == a.f + b.f
  IN IF s >= FracScale THEN Num(a.w + b.w + 1, s - FracScale)
     ELSE Num(a.w + b.w, s)

\* Math.round((amountNum + tax) * 10000) / 10000
Total(a, tax) == Round4(Plus(a, tax))

\* A value stored in a DECIMAL(12,4) column
Decimal4(a) == Round4(a)

\* --------------------------------------------------------------- order ids
\* An order id is a sequence of one-character strings.
Lower ==
  [c \in {"a", "b", "A", "B", "1", "2", "-", "_", " ", "!"} |->
     CASE c = "A" -> "a" [] c = "B" -> "b" [] OTHER -> c]

IdChars == {"a", "b", "A", "B", "1", "2", "-", "_"}

\* /^[a-zA-Z0-9_-]+$/.test(order_id) && order_id.length <= 100
ValidOrderId(id) ==
  /\ Len(id) >= 1
  /\ \A i \in 1..Len(id) : id[i] \in IdChars
  /\ Len(id) <= MaxOrderIdLen

\* The unique key of the orders table compares under utf8mb4_unicode_ci:
\* case-insensitively.
StoreKey(id) == [i \in 1..Len(id) |-> Lower[id[i]]]

IdLower == <<"a", "1">>
IdUpper == <<"A", "1">>
IdOther == <<"b", "2">>
IdBad == <<"b", " ", "!">>
IdEmpty == <<>>
IdLong == [i \in 1..(MaxOrderIdLen + 1) |-> "a"]

GoodIds == {IdLower, IdUpper, IdOther}
BadIds == {IdBad, IdEmpty, IdLong}

A100 == Num(100, 0)
A50 == Num(50, 0)
ATiny == Num(0, 1)
GoodAmounts == {A100, A50, ATiny}
BadAmounts ==
  {Num(0, 0), Num(-5, 0), Num(999999, 99995), Num(1000000, 0), NaN,
   Infinity, Undefined}

\* ------------------------------------------------- stream fields (strings)
\* Stream fields are strings: xadd writes value.toString(), the worker
\* parses the amount back with Number().
Absent == [t |-> "absent", w |-> 0, f |-> 0]
GarbageText == [t |-> "garbage", w |-> 0, f |-> 0]

\* numericAmount.toString()
NumberToString(a) ==
  CASE a.k = "num" -> [t |-> "dec", w |-> a.w, f |-> a.f]
    [] a.k = "nan" -> GarbageText
    [] OTHER -> [t |-> "word", w |-> 0, f |-> 0]

\* Number(amount) on a stream field
ParseNumber(x) ==
  CASE x.t = "dec" -> Num(x.w, x.f)
    [] x.t = "word" -> Infinity
    [] OTHER -> NaN

\* JS truthiness of a decoded stream field: a missing field is undefined
FieldPresent(x) == x.t # "absent"

\* messageData of the admission route, as the field map xadd appends
messageData(id, amt) == [order_id |-> id, amount |-> NumberToString(amt)]

\* ------------------------------------------------------------------- state
VARIABLES
  queue,   \* orders_stream: the sequence of field maps appended so far
  store,   \* the orders table: a set of rows
  cache,   \* Redis keys order:<id>: id -> [val, ttl], ttl = 0: no key
  req,     \* per API client: the request being served and its response
  wk,      \* per worker process: the position of processOrders
  sd,      \* per worker process: the stage of its signal handler
  probe    \* the persist step applied to a drawn event (redelivery)

vars == <<queue, store, cache, req, wk, sd, probe>>

NoBody == [order_id |-> <<>>, amount |-> Undefined, tax |-> Undefined,
           total |-> Undefined, status |-> "none"]

NoEntry == [val |-> NoBody, ttl |-> 0]

IdleReq ==
  [op |-> "none", pc |-> "idle", order_id |-> <<>>, amount |-> Undefined,
   status |-> 0, hit |-> FALSE, body |-> NoBody, cacheFault |-> FALSE,
   storeFault |-> FALSE, queueFault |-> FALSE, appends |-> 0, tries |-> 0]

IdleWorker ==
  [pc |-> "loop", pos |-> 0, hi |-> 0, idx |-> 0, consecutiveErrors |-> 0,
   delay |-> 0, err |-> "none"]

NoProbe == [on |-> FALSE, event |-> [order_id |-> <<>>, amount |-> Absent],
            applied |-> 0, prior |-> {}, first |-> {}]

Init ==
  /\ queue = <<>>
  /\ store = {}
  /\ cache = [k \in GoodIds |-> NoEntry]
  /\ req = [c \in Clients |-> IdleReq]
  /\ wk = [w \in Workers |-> IdleWorker]
  /\ sd = [w \in Workers |-> "none"]
  /\ probe = NoProbe

\* ------------------------------------------------------------------- store
\* SELECT ... FROM orders WHERE order_id = ?
FindOrder(S, id) == {r \in S : StoreKey(r.order_id) = StoreKey(id)}

NextRowId(S) == Cardinality(S) + 1

\* A plain INSERT on a table without the unique key: always a new row
UpsertInsertOnly(S, id, amt, tax, total) ==
  S \cup {[id |-> NextRowId(S), order_id |-> id, amount |-> Decimal4(amt),
           tax |-> Decimal4(tax), total |-> Decimal4(total),
           status |-> "completed"]}

\* INSERT INTO orders ... VALUES (?, ?, ?, ?, 'completed', NOW())
\* ON DUPLICATE KEY UPDATE amount, tax, total, status, processed_at
Upsert(S, id, amt, tax, total) ==
  IF FindOrder(S, id) = {}
  THEN S \cup {[id |-> NextRowId(S), order_id |-> id,
                amount |-> Decimal4(amt), tax |-> Decimal4(tax),
                total |-> Decimal4(total), status |-> "completed"]}
  ELSE {IF StoreKey(r.order_id) = StoreKey(id)
        THEN [r EXCEPT !.amount = Decimal4(amt), !.tax = Decimal4(tax),
                       !.total = Decimal4(total), !.status = "completed"]
        ELSE r : r \in S}

\* The consumer's persist step for a well-formed message: amountNum, tax,
\* total, then the upsert
Persist(S, e) ==
  LET amt == ParseNumber(e.amount)
  IN Upsert(S, e.order_id, amt, Tax(amt), Total(amt, Tax(amt)))

\* The fields the claims compare
Fields(r) ==
  [amount |-> r.amount, tax |-> r.tax, total |-> r.total,
   status |-> r.status]

\* ------------------------------------------------------------------- cache
CacheHas(C, id) == C[id].ttl > 0

\* redis.setex(`order:${id}`, 3600, JSON.stringify(val))
Setex(C, id, val) == [C EXCEPT ![id] = [val |-> val, ttl |-> CacheTtl]]

\* A read that leaves the key's TTL running (no sliding expiry)
ExpireNoRefresh(C, id) == C

\* redis.expire(`order:${id}`, 3600): no effect on a key that is gone
Expire(C, id) ==
  IF CacheHas(C, id) THEN [C EXCEPT ![id].ttl = CacheTtl] ELSE C

\* Time passing in Redis: every key ages, a key whose TTL ran out is deleted
Tick ==
  /\ \E k \in DOMAIN cache : CacheHas(cache, k)
  /\ cache' = [k \in DOMAIN cache |->
                 IF cache[k].ttl > TickSeconds
                 THEN [cache[k] EXCEPT !.ttl = @ - TickSeconds]
                 ELSE NoEntry]
  /\ UNCHANGED <<queue, store, req, wk, sd, probe>>

\* --------------------------------------------------- POST /orders (submit)
\* Validation with the ceiling test written as > 1000000
ValidationLooseCeiling(id, amt) ==
  CASE Len(id) = 0 \/ ~Truthy(amt) -> "missing"
    [] ~ValidOrderId(id) -> "bad_id"
    [] ~IsFinite(amt) \/ ~IsPositive(amt)
         \/ ~NumLE(amt, Num(1000000, 0)) -> "bad_amount"
    [] OTHER -> "ok"

\* The three validation returns of the route, in order
Validation(id, amt) ==
  CASE Len(id) = 0 \/ ~Truthy(amt) -> "missing"
    [] ~ValidOrderId(id) -> "bad_id"
    [] ~IsFinite(amt) \/ ~IsPositive(amt) \/ ~NumLE(amt, MaxAmount) ->
         "bad_amount"
    [] OTHER -> "ok"

Respond(r, code) == [r EXCEPT !.pc = "done", !.status = code]

SubmitsInFlight ==
  Cardinality({c \in Clients : req[c].op = "submit" /\ req[c].pc # "done"})

StartSubmit(c, id, amt) ==
  /\ req[c].pc \in {"idle", "done"}
  /\ Len(queue) + SubmitsInFlight < MaxQueue
  /\ LET r == [IdleReq EXCEPT !.op = "submit", !.order_id = id,
                              !.amount = amt]
     IN req' = [req EXCEPT ![c] =
                  IF Validation(id, amt) = "ok"
                  THEN [r EXCEPT !.pc = "cacheGet"]
                  ELSE Respond(r, 400)]
  /\ UNCHANGED <<queue, store, cache, wk, sd, probe>>

\* const existingOrder = await redis.get(`order:${order_id}`)
SubmitCacheGet(c, ok) ==
  /\ req[c].op = "submit" /\ req[c].pc = "cacheGet"
  /\ LET r == req[c]
     IN req' = [req EXCEPT ![c] =
          IF ~ok THEN Respond([r EXCEPT !.cacheFault = TRUE], 500)
          ELSE IF CacheHas(cache, r.order_id)
               THEN Respond([r EXCEPT !.body = cache[r.order_id].val], 409)
               ELSE [r EXCEPT !.pc = "dbQuery"]]
  /\ UNCHANGED <<queue, store, cache, wk, sd, probe>>

\* The Store lookup in a try/catch of its own: a throw falls through to xadd
SubmitDbQueryFallsThrough(c, ok) ==
  /\ req[c].op = "submit" /\ req[c].pc = "dbQuery"
  /\ LET r == req[c]
     IN req' = [req EXCEPT ![c] =
          IF ~ok THEN [r EXCEPT !.storeFault = TRUE, !.pc = "xadd"]
          ELSE IF FindOrder(store, r.order_id) # {}
               THEN Respond(r, 409)
               ELSE [r EXCEPT !.pc = "xadd"]]
  /\ UNCHANGED <<queue, store, cache, wk, sd, probe>>

\* const [existingRows] = await db.query('SELECT order_id, status ...')
SubmitDbQuery(c, ok) ==
  /\ req[c].op = "submit" /\ req[c].pc = "dbQuery"
  /\ LET r == req[c]
     IN req' = [req EXCEPT ![c] =
          IF ~ok THEN Respond([r EXCEPT !.storeFault = TRUE], 500)
          ELSE IF FindOrder(store, r.order_id) # {}
               THEN Respond(r, 409)
               ELSE [r EXCEPT !.pc = "xadd"]]
  /\ UNCHANGED <<queue, store, cache, wk, sd, probe>>

\* xadd followed by a duplicate-suppression marker written to the Cache
SubmitXaddMarks(c, ok) ==
  /\ req[c].op = "submit" /\ req[c].pc = "xadd"
  /\ IF ok
     THEN /\ queue' = Append(queue, messageData(req[c].order_id,
                                                req[c].amount))
          /\ cache' = Setex(cache, req[c].order_id,
                            [NoBody EXCEPT !.order_id = req[c].order_id,
                                           !.amount = req[c].amount,
                                           !.status = "processing"])
          /\ req' = [req EXCEPT ![c] =
               Respond([@ EXCEPT !.appends = @ + 1, !.tries = @ + 1], 201)]
     ELSE /\ queue' = queue /\ cache' = cache
          /\ req' = [req EXCEPT ![c] =
               Respond([@ EXCEPT !.queueFault = TRUE, !.tries = @ + 1], 500)]
  /\ UNCHANGED <<store, wk, sd, probe>>

\* xadd retried once by the server after a failure
SubmitXaddRetries(c, ok) ==
  /\ req[c].op = "submit" /\ req[c].pc = "xadd"
  /\ IF ok
     THEN /\ queue' = Append(queue, messageData(req[c].order_id,
                                                req[c].amount))
          /\ req' = [req EXCEPT ![c] =
               Respond([@ EXCEPT !.appends = @ + 1, !.tries = @ + 1], 201)]
     ELSE /\ queue' = queue
          /\ req' = [req EXCEPT ![c] =
               IF req[c].tries = 0
               THEN [@ EXCEPT !.tries = @ + 1]
               ELSE Respond([@ EXCEPT !.queueFault = TRUE,
                                      !.tries = @ + 1], 500)]
  /\ UNCHANGED <<store, cache, wk, sd, probe>>

\* await redis.xadd(...streamArgs), then 201; a throw goes to the 500 catch
SubmitXadd(c, ok) ==
  /\ req[c].op = "submit" /\ req[c].pc = "xadd"
  /\ IF ok
     THEN /\ queue' = Append(queue, messageData(req[c].order_id,
                                                req[c].amount))
          /\ req' = [req EXCEPT ![c] =
               Respond([@ EXCEPT !.appends = @ + 1, !.tries = @ + 1], 201)]
     ELSE /\ queue' = queue
          /\ req' = [req EXCEPT ![c] =
               Respond([@ EXCEPT !.queueFault = TRUE, !.tries = @ + 1], 500)]
  /\ UNCHANGED <<store, cache, wk, sd, probe>>

\* ------------------------------------------- GET /orders/:order_id (read)
StartGet(c, id) ==
  /\ req[c].pc \in {"idle", "done"}
  /\ LET r == [IdleReq EXCEPT !.op = "get", !.order_id = id]
     IN req' = [req EXCEPT ![c] =
                  IF Len(id) = 0 \/ ~ValidOrderId(id)
                  THEN Respond(r, 400)
                  ELSE [r EXCEPT !.pc = "gCacheGet"]]
  /\ UNCHANGED <<queue, store, cache, wk, sd, probe>>

\* The cache read outside any try/catch, as in the admission route: a throw
\* reaches the route's outer catch
GetCacheGetUncaught(c, ok) ==
  /\ req[c].op = "get" /\ req[c].pc = "gCacheGet"
  /\ LET r == req[c]
     IN req' = [req EXCEPT ![c] =
          IF ~ok THEN Respond([r EXCEPT !.cacheFault = TRUE], 500)
          ELSE IF CacheHas(cache, r.order_id)
               THEN [r EXCEPT !.body = cache[r.order_id].val,
                              !.pc = "gExpire"]
               ELSE [r EXCEPT !.pc = "gDbQuery"]]
  /\ UNCHANGED <<queue, store, cache, wk, sd, probe>>

\* cached = await redis.get(...): a hit goes on to the TTL refresh, a miss
\* or a throw (caught) to the database lookup
GetCacheGet(c, ok) ==
  /\ req[c].op = "get" /\ req[c].pc = "gCacheGet"
  /\ LET r == req[c]
     IN req' = [req EXCEPT ![c] =
          IF ~ok THEN [r EXCEPT !.cacheFault = TRUE, !.pc = "gDbQuery"]
          ELSE IF CacheHas(cache, r.order_id)
               THEN [r EXCEPT !.body = cache[r.order_id].val,
                              !.pc = "gExpire"]
               ELSE [r EXCEPT !.pc = "gDbQuery"]]
  /\ UNCHANGED <<queue, store, cache, wk, sd, probe>>

\* await redis.expire(key, 3600), then the cached record with cache_hit true
GetExpire(c, ok) ==
  /\ req[c].op = "get" /\ req[c].pc = "gExpire"
  /\ IF ok
     THEN /\ cache' = Expire(cache, req[c].order_id)
          /\ req' = [req EXCEPT ![c] = Respond([@ EXCEPT !.hit = TRUE], 200)]
     ELSE /\ cache' = cache
          /\ req' = [req EXCEPT ![c] =
               [@ EXCEPT !.cacheFault = TRUE, !.body = NoBody,
                         !.pc = "gDbQuery"]]
  /\ UNCHANGED <<queue, store, wk, sd, probe>>

\* The row as the route returns and caches it (enrichedOrder)
enrichedOrder(row) ==
  [order_id |-> row.order_id, amount |-> row.amount, tax |-> row.tax,
   total |-> row.total, status |-> row.status]

\* A lookup that also caches the not-found answer
GetDbQueryCachesMiss(c, ok) ==
  /\ req[c].op = "get" /\ req[c].pc = "gDbQuery"
  /\ LET r == req[c]
         rows == FindOrder(store, r.order_id)
     IN req' = [req EXCEPT ![c] =
          IF ~ok THEN Respond([r EXCEPT !.storeFault = TRUE], 500)
          ELSE IF rows = {}
               THEN [r EXCEPT
                       !.body = [NoBody EXCEPT !.order_id = r.order_id,
                                               !.status = "not_found"],
                       !.pc = "gSetex"]
               ELSE [r EXCEPT
                       !.body = enrichedOrder(CHOOSE x \in rows : TRUE),
                       !.pc = "gSetex"]]
  /\ UNCHANGED <<queue, store, cache, wk, sd, probe>>

\* const [rows] = await db.query('SELECT ... WHERE order_id = ?')
GetDbQuery(c, ok) ==
  /\ req[c].op = "get" /\ req[c].pc = "gDbQuery"
  /\ LET r == req[c]
         rows == FindOrder(store, r.order_id)
     IN req' = [req EXCEPT ![c] =
          IF ~ok THEN Respond([r EXCEPT !.storeFault = TRUE], 500)
          ELSE IF rows = {}
               THEN Respond(r, 404)
               ELSE [r EXCEPT
                       !.body = enrichedOrder(CHOOSE x \in rows : TRUE),
                       !.pc = "gSetex"]]
  /\ UNCHANGED <<queue, store, cache, wk, sd, probe>>

\* The read route answering from the Store without populating the Cache
GetSetexSkips(c, ok) ==
  /\ req[c].op = "get" /\ req[c].pc = "gSetex"
  /\ cache' = cache
  /\ req' = [req EXCEPT ![c] =
       Respond(IF ok THEN @ ELSE [@ EXCEPT !.cacheFault = TRUE], 200)]
  /\ UNCHANGED <<queue, store, wk, sd, probe>>

\* await redis.setex(key, 3600, cacheData) in its own try/catch, then 200
GetSetex(c, ok) ==
  /\ req[c].op = "get" /\ req[c].pc = "gSetex"
  /\ cache' = IF ok THEN Setex(cache, req[c].order_id, req[c].body)
              ELSE cache
  /\ req' = [req EXCEPT ![c] =
       Respond(IF ok THEN @ ELSE [@ EXCEPT !.cacheFault = TRUE], 200)]
  /\ UNCHANGED <<queue, store, wk, sd, probe>>

\* ------------------------------------------------- worker: processOrders
isShuttingDown(w) == sd[w] # "none"

\* redis.disconnect() is the first call of the signal handler
RedisClosed(w) == sd[w] # "none"

Alive(w) == sd[w] # "exited"

\* A delay that grows by one base step per error instead of doubling
BackoffDelayLinear(n) ==
  IF BackoffBaseMs * n < BackoffCapMs THEN BackoffBaseMs * n
  ELSE BackoffCapMs

\* Math.min(1000 * Math.pow(2, consecutiveErrors - 1), 30000)
BackoffDelay(n) ==
  IF BackoffBaseMs * (2 ^ (n - 1)) < BackoffCapMs
  THEN BackoffBaseMs * (2 ^ (n - 1))
  ELSE BackoffCapMs

\* A loop-level catch without the ceiling test: every error is slept off
LoopErrorNoCeiling(r, shutting) ==
  LET n == r.consecutiveErrors + 1
  IN [r EXCEPT !.consecutiveErrors = n, !.delay = BackoffDelay(n),
               !.pos = 0, !.hi = 0, !.idx = 0, !.pc = "backoff"]

\* The loop-level catch: count the error, then either rethrow to the outer
\* catch of processOrders (which arms the 5 s restart timer unless shutting
\* down) or sleep the backoff delay.
LoopError(r, shutting) ==
  LET n == r.consecutiveErrors + 1
  IN IF n >= maxConsecutiveErrors
     THEN [r EXCEPT !.consecutiveErrors = n, !.delay = 0,
                    !.pos = 0, !.hi = 0, !.idx = 0,
                    !.pc = IF shutting THEN "returned" ELSE "cooldown"]
     ELSE [r EXCEPT !.consecutiveErrors = n, !.delay = BackoffDelay(n),
                    !.pos = 0, !.hi = 0, !.idx = 0, !.pc = "backoff"]

\* err of the loop-level catch: the call whose rejection it caught
Caught(r, call) == [r EXCEPT !.err = call]

\* A loop head that does not test the shutdown flag
WLoopIgnoresFlag(w) ==
  /\ Alive(w) /\ wk[w].pc = "loop"
  /\ wk' = [wk EXCEPT ![w] = [@ EXCEPT !.pc = "xread", !.pos = Len(queue)]]
  /\ UNCHANGED <<queue, store, cache, req, sd, probe>>

\* while (!isShuttingDown) { results = await redis.xread('BLOCK', 5000,
\* 'STREAMS', 'orders_stream', '$') : '$' is the end of the stream at the
\* time of the call
WLoop(w) ==
  /\ Alive(w) /\ wk[w].pc = "loop"
  /\ wk' = [wk EXCEPT ![w] =
       IF isShuttingDown(w) THEN [@ EXCEPT !.pc = "returned"]
       ELSE [@ EXCEPT !.pc = "xread", !.pos = Len(queue)]]
  /\ UNCHANGED <<queue, store, cache, req, sd, probe>>

\* The blocked xread returns: the entries appended since the call, null
\* after the 5 s timeout, or a rejection (a fault, or the connection closed
\* by the signal handler)
WXread(w, ok) ==
  /\ Alive(w) /\ wk[w].pc = "xread"
  /\ ok => ~RedisClosed(w)
  /\ LET r == wk[w]
     IN wk' = [wk EXCEPT ![w] =
          IF ~ok THEN LoopError(Caught(r, "xread"), isShuttingDown(w))
          ELSE IF Len(queue) > r.pos
               THEN [r EXCEPT !.pc = "entry", !.idx = r.pos + 1,
                              !.hi = Len(queue)]
               ELSE [r EXCEPT !.pc = "loop", !.pos = 0,
                              !.consecutiveErrors = 0]]
  /\ UNCHANGED <<queue, store, cache, req, sd, probe>>

\* The decoded message passes the worker's two checks
WellFormed(e) ==
  /\ Len(e.order_id) > 0 /\ FieldPresent(e.amount)
  /\ IsFinite(ParseNumber(e.amount)) /\ IsPositive(ParseNumber(e.amount))

\* A malformed message treated as a processing failure that reaches the
\* loop-level catch instead of being skipped
WEntryThrows(w) ==
  /\ Alive(w) /\ wk[w].pc = "entry"
  /\ LET r == wk[w]
     IN wk' = [wk EXCEPT ![w] =
          IF r.idx > r.hi
          THEN [r EXCEPT !.pc = "loop", !.pos = 0, !.hi = 0, !.idx = 0]
          ELSE IF isShuttingDown(w)
               THEN [r EXCEPT !.pc = "returned", !.pos = 0, !.hi = 0,
                              !.idx = 0]
               ELSE IF ~WellFormed(queue[r.idx])
                    THEN LoopError(Caught(r, "entry"), FALSE)
                    ELSE [r EXCEPT !.pc = "upsert"]]
  /\ UNCHANGED <<queue, store, cache, req, sd, probe>>

\* Head of the inner for loop: end of batch, shutdown return, a malformed
\* message skipped (continue), or the upsert issued
WEntry(w) ==
  /\ Alive(w) /\ wk[w].pc = "entry"
  /\ LET r == wk[w]
     IN wk' = [wk EXCEPT ![w] =
          IF r.idx > r.hi
          THEN [r EXCEPT !.pc = "loop", !.pos = 0, !.hi = 0, !.idx = 0]
          ELSE IF isShuttingDown(w)
               THEN [r EXCEPT !.pc = "returned", !.pos = 0, !.hi = 0,
                              !.idx = 0]
               ELSE IF ~WellFormed(queue[r.idx])
                    THEN [r EXCEPT !.idx = r.idx + 1]
                    ELSE [r EXCEPT !.pc = "upsert"]]
  /\ UNCHANGED <<queue, store, cache, req, sd, probe>>

amountNum(w) == ParseNumber(queue[wk[w].idx].amount)

\* orderData, the record the worker caches
orderData(id, amt) ==
  [order_id |-> id, amount |-> amt, tax |-> Tax(amt),
   total |-> Total(amt, Tax(amt)), status |-> "completed"]

\* A per-message catch that logs and goes on: a rejected upsert is absorbed
\* and the loop moves to the next message
WUpsertSwallows(w, ok) ==
  /\ Alive(w) /\ wk[w].pc = "upsert"
  /\ IF ok
     THEN /\ store' = Persist(store, queue[wk[w].idx])
          /\ wk' = [wk EXCEPT ![w] =
               IF RedisClosed(w)
               THEN LoopError(Caught(@, "setex"), isShuttingDown(w))
               ELSE [@ EXCEPT !.pc = "setex"]]
     ELSE /\ store' = store
          /\ wk' = [wk EXCEPT ![w] = [@ EXCEPT !.pc = "entry",
                                               !.idx = @ + 1]]
  /\ UNCHANGED <<queue, cache, req, sd, probe>>

\* await db.query(INSERT ... ON DUPLICATE KEY UPDATE ...). A rejection lands
\* in the per-message catch, whose log line reads `data`, a const of the try
\* block that is out of scope there: the ReferenceError escapes to the
\* loop-level catch. After the upsert the setex is issued; on a connection
\* the signal handler has closed it rejects at once, with the same outcome.
WUpsert(w, ok) ==
  /\ Alive(w) /\ wk[w].pc = "upsert"
  /\ IF ok
     THEN /\ store' = Persist(store, queue[wk[w].idx])
          /\ wk' = [wk EXCEPT ![w] =
               IF RedisClosed(w)
               THEN LoopError(Caught(@, "setex"), isShuttingDown(w))
               ELSE [@ EXCEPT !.pc = "setex"]]
     ELSE /\ store' = store
          /\ wk' = [wk EXCEPT ![w] =
               LoopError(Caught(@, "upsert"), isShuttingDown(w))]
  /\ UNCHANGED <<queue, cache, req, sd, probe>>

\* await redis.setex(`order:${order_id}`, 3600, JSON.stringify(orderData));
\* then consecutiveErrors = 0 and the next message. A rejection takes the
\* same path as a failed upsert. A setex in flight when the signal handler
\* disconnects is rejected, whether or not the server applied it.
WSetex(w, ok, applied) ==
  /\ Alive(w) /\ wk[w].pc = "setex"
  /\ ok => ~RedisClosed(w)
  /\ ok => applied
  /\ applied => (ok \/ RedisClosed(w))
  /\ cache' = IF applied
              THEN Setex(cache, queue[wk[w].idx].order_id,
                         orderData(queue[wk[w].idx].order_id, amountNum(w)))
              ELSE cache
  /\ wk' = [wk EXCEPT ![w] =
       IF ok THEN [@ EXCEPT !.pc = "entry", !.idx = @ + 1,
                            !.consecutiveErrors = 0]
       ELSE LoopError(Caught(@, "setex"), isShuttingDown(w))]
  /\ UNCHANGED <<queue, store, req, sd, probe>>

\* The backoff sleep ends: back to the while condition
WBackoff(w) ==
  /\ Alive(w) /\ wk[w].pc = "backoff"
  /\ wk' = [wk EXCEPT ![w] = [@ EXCEPT !.pc = "loop", !.delay = 0,
                                       !.err = "none"]]
  /\ UNCHANGED <<queue, store, cache, req, sd, probe>>

\* The 5 s restart timer fires: processOrders() again unless shutting down
WRestart(w) ==
  /\ Alive(w) /\ wk[w].pc = "cooldown"
  /\ wk' = [wk EXCEPT ![w] =
       IF isShuttingDown(w) THEN [@ EXCEPT !.pc = "returned"]
       ELSE IdleWorker]
  /\ UNCHANGED <<queue, store, cache, req, sd, probe>>

\* ----------------------------------- stream entries of another producer
\* Field maps that fail the worker's two checks: no amount, no order_id, an
\* amount that is not a number, zero, negative, or not finite
MalformedEntries ==
  {[order_id |-> IdLower, amount |-> Absent],
   [order_id |-> IdEmpty, amount |-> NumberToString(A100)],
   [order_id |-> IdLower, amount |-> GarbageText],
   [order_id |-> IdLower, amount |-> NumberToString(Num(0, 0))],
   [order_id |-> IdLower, amount |-> NumberToString(Num(-5, 0))],
   [order_id |-> IdLower, amount |-> NumberToString(Infinity)]}

\* An entry of orders_stream the admission route did not write: the worker
\* decodes whatever field list xread hands it
ForeignXadd(e) ==
  /\ Len(queue) + SubmitsInFlight < MaxQueue
  /\ queue' = Append(queue, e)
  /\ UNCHANGED <<store, cache, req, wk, sd, probe>>

\* ------------------------------------------- worker: the signal handler
\* SIGTERM/SIGINT: isShuttingDown = true and redis.disconnect(), in one turn
Signal(w) ==
  /\ sd[w] = "none"
  /\ sd' = [sd EXCEPT ![w] = "redisClosed"]
  /\ UNCHANGED <<queue, store, cache, req, wk, probe>>

\* await db.end()
DbEnd(w) ==
  /\ sd[w] = "redisClosed"
  /\ sd' = [sd EXCEPT ![w] = "dbClosed"]
  /\ UNCHANGED <<queue, store, cache, req, wk, probe>>

\* process.exit(0)
Exit(w) ==
  /\ sd[w] = "dbClosed"
  /\ sd' = [sd EXCEPT ![w] = "exited"]
  /\ UNCHANGED <<queue, store, cache, req, wk, probe>>

\* --------------------------------------------- redelivery of one event
\* The persist step applied again and again to the same event
PersistStep ==
  /\ probe.on /\ probe.applied < MaxRedeliver
  /\ store' = Persist(store, probe.event)
  /\ probe' = [probe EXCEPT !.applied = @ + 1,
                            !.first = IF probe.applied = 0 THEN store'
                                      ELSE @]
  /\ UNCHANGED <<queue, cache, req, wk, sd>>

PersistAmounts == GoodAmounts \cup {Num(0, 750), Num(0, 250), MaxAmount}

WithStatus(S, st) == {[r EXCEPT !.status = st] : r \in S}

\* Prior Store states: up to two orders processed earlier, their status
\* possibly changed since by another actor
PriorStores ==
  LET evs == {messageData(id, a) : id \in GoodIds, a \in {A50, ATiny}}
      one == {Persist({}, e) : e \in evs}
      two == {Persist(S, e) : S \in one, e \in evs}
  IN {WithStatus(S, st) : S \in {{}} \cup one \cup two,
                          st \in {"processing", "completed", "failed"}}

InitPersist ==
  /\ queue = <<>>
  /\ store \in PriorStores
  /\ cache = [k \in GoodIds |-> NoEntry]
  /\ req = [c \in Clients |-> IdleReq]
  /\ wk = [w \in Workers |-> IdleWorker]
  /\ sd = [w \in Workers |-> "none"]
  /\ probe \in {[on |-> TRUE, event |-> messageData(id, a), applied |-> 0,
                 prior |-> store, first |-> {}] :
                  id \in GoodIds, a \in PersistAmounts}

SpecPersist == InitPersist /\ [][PersistStep]_vars

\* ------------------------------------------------------- specifications
SubmitStep(ids, amts, F) ==
  \E c \in Clients :
    \/ \E id \in ids, amt \in amts : StartSubmit(c, id, amt)
    \/ \E ok \in F : SubmitCacheGet(c, ok)
    \/ \E ok \in F : SubmitDbQuery(c, ok)
    \/ \E ok \in F : SubmitXadd(c, ok)

GetStep(ids, F) ==
  \E c \in Clients :
    \/ \E id \in ids : StartGet(c, id)
    \/ \E ok \in F : GetCacheGet(c, ok)
    \/ \E ok \in F : GetExpire(c, ok)
    \/ \E ok \in F : GetDbQuery(c, ok)
    \/ \E ok \in F : GetSetex(c, ok)

\* The worker on healthy connections
WorkerRun(w) ==
  \/ WLoop(w)
  \/ WXread(w, TRUE)
  \/ WEntry(w)
  \/ WUpsert(w, TRUE)
  \/ WSetex(w, TRUE, TRUE)

\* The worker's calls rejected by a fault, and the timers that follow
WorkerFault(w) ==
  \/ WXread(w, FALSE)
  \/ WUpsert(w, FALSE)
  \/ WSetex(w, FALSE, FALSE)
  \/ WBackoff(w)
  \/ WRestart(w)

\* The worker's Redis calls rejected because the signal handler closed the
\* connection, and the backoff sleep that follows
WorkerCut(w) ==
  \/ RedisClosed(w) /\ WXread(w, FALSE)
  \/ RedisClosed(w) /\ \E applied \in BOOLEAN : WSetex(w, FALSE, applied)
  \/ WBackoff(w)

ShutdownStep(w) == Signal(w) \/ DbEnd(w) \/ Exit(w)

\* Admission with every call free to fail, beside the read route and one
\* worker on healthy connections
Next ==
  \/ SubmitStep(GoodIds \cup {IdBad}, {A100, A50, Num(0, 0)}, BOOLEAN)
  \/ GetStep(GoodIds, {TRUE})
  \/ WorkerRun(1)
  \/ Tick

Spec == Init /\ [][Next]_vars

\* Admission of two orders that share no Store row, every call free to
\* fail, beside the read route and one worker on healthy connections
NextAdmit ==
  \/ SubmitStep({IdLower, IdOther}, {A100}, BOOLEAN)
  \/ GetStep({IdLower}, {TRUE})
  \/ WorkerRun(1)
  \/ Tick

SpecAdmit == Init /\ [][NextAdmit]_vars

\* Admission over every kind of invalid input, beside one worker
NextValidate ==
  \/ SubmitStep({IdLower} \cup BadIds, {A100} \cup BadAmounts, {TRUE})
  \/ WorkerRun(1)

SpecValidate == Init /\ [][NextValidate]_vars

\* Healthy admission and one healthy worker whose loop keeps running
NextLive ==
  \/ SubmitStep({IdLower, IdOther}, {A100}, {TRUE})
  \/ WorkerRun(1)

SpecLive == Init /\ [][NextLive]_vars /\ WF_vars(WorkerRun(1))

\* Healthy admission and read route beside every worker, all healthy
NextRace ==
  \/ SubmitStep({IdLower, IdOther}, {A100, A50}, {TRUE})
  \/ GetStep({IdLower, IdOther}, {TRUE})
  \/ \E w \in Workers : WorkerRun(w)
  \/ Tick

SpecRace == Init /\ [][NextRace]_vars

\* Healthy admission, one worker and its signal handler
NextShutdown ==
  \/ SubmitStep({IdLower, IdOther}, {A100, A50}, {TRUE})
  \/ WorkerRun(1)
  \/ WorkerCut(1)
  \/ ShutdownStep(1)

SpecShutdown == Init /\ [][NextShutdown]_vars

\* The read route with every call free to fail, beside healthy admission of
\* one order, one healthy worker and the keys' ageing
NextRead ==
  \/ SubmitStep({IdLower}, {A100}, {TRUE})
  \/ GetStep({IdLower, IdOther}, BOOLEAN)
  \/ WorkerRun(1)
  \/ Tick

SpecRead == Init /\ [][NextRead]_vars

\* Amounts with four fractional digits, among them two whose product with
\* 0.18 is an exact tie at the fourth digit, and the admission ceiling
TaxAmounts == {A100, Num(0, 750), Num(0, 250), MaxAmount}

\* Healthy admission of such amounts and one healthy worker
NextTax ==
  \/ SubmitStep({IdLower, IdOther}, TaxAmounts, {TRUE})
  \/ WorkerRun(1)

SpecTax == Init /\ [][NextTax]_vars

\* Healthy admission, malformed entries of another producer, and one worker
\* whose Queue read, Store upsert and Cache write can each be rejected
NextWorker ==
  \/ SubmitStep({IdLower, IdOther}, {A100}, {TRUE})
  \/ \E e \in MalformedEntries : ForeignXadd(e)
  \/ WorkerRun(1)
  \/ WorkerFault(1)

SpecWorker == Init /\ [][NextWorker]_vars

\* Healthy admission and one worker whose upserts can be rejected; the worker
\* loop keeps running and a backoff sleep ends. The Store recovers: only the
\* finitely many entries of the Queue can meet a rejected upsert.
NextRetry ==
  \/ SubmitStep({IdLower, IdOther}, {A100}, {TRUE})
  \/ WorkerRun(1)
  \/ WUpsert(1, FALSE)
  \/ WBackoff(1)

SpecRetry ==
  Init /\ [][NextRetry]_vars /\ WF_vars(WorkerRun(1)) /\ WF_vars(WBackoff(1))

\* Healthy admission and one worker whose calls can be rejected, with its
\* backoff and restart timers and its signal handler
NextBreaker ==
  \/ SubmitStep({IdLower, IdOther}, {A100}, {TRUE})
  \/ WorkerRun(1)
  \/ WorkerFault(1)
  \/ WorkerCut(1)
  \/ ShutdownStep(1)

SpecBreaker == Init /\ [][NextBreaker]_vars

\* Every writer of the Cache: the read route asked for an order under two
\* spellings, before and after it is processed, and one worker whose calls
\* can be rejected, beside healthy admission of the order and the keys'
\* ageing
NextPresence ==
  \/ SubmitStep({IdLower}, {A100}, {TRUE})
  \/ GetStep({IdLower, IdUpper}, {TRUE})
  \/ WorkerRun(1)
  \/ WorkerFault(1)
  \/ Tick

SpecPresence == Init /\ [][NextPresence]_vars

\* ================================================================= claims
\* What the claims call a valid submit, stated from the contract
ClaimValidId(id) ==
  /\ Len(id) \in 1..100
  /\ \A i \in 1..Len(id) :
       id[i] \in {"a", "b", "A", "B", "1", "2", "_", "-"}

ClaimValidAmount(a) ==
  /\ a.k = "num"
  /\ a.w > 0 \/ (a.w = 0 /\ a.f > 0)
  /\ a.w < 999999 \/ (a.w = 999999 /\ a.f <= 99990)

\* Client c's request moves in this step
Steps(c) == req'[c] # req[c]

QueueCount(id) ==
  Cardinality({i \in 1..Len(queue) : queue[i].order_id = id})

\* C1: with Cache and Store healthy and the Consumer not yet having
\* processed any event for X (no Store row, no Cache entry), a submit of X
\* that finds an event for X already queued is rejected as a duplicate
\* (409), and the Queue holds exactly one entry for X.
C1_DuplicateRejection ==
  \A c \in Clients :
    LET r == req[c]
    IN (/\ r.op = "submit" /\ r.pc = "done" /\ r.status # 400
        /\ ~r.cacheFault /\ ~r.storeFault /\ ~r.queueFault
        /\ FindOrder(store, r.order_id) = {}
        /\ ~CacheHas(cache, r.order_id)
        /\ QueueCount(r.order_id) - r.appends >= 1)
       => (r.status = 409 /\ QueueCount(r.order_id) = 1)

\* C3: a submit whose order_id or amount is invalid ends at once with a
\* ValidationError (400) and leaves Queue, Cache and Store unchanged.
C3_ValidationNoSideEffects ==
  [][\A c \in Clients :
       (/\ Steps(c) /\ req'[c].op = "submit"
        /\ ~(ClaimValidId(req'[c].order_id)
             /\ ClaimValidAmount(req'[c].amount)))
       => (/\ req'[c].pc = "done" /\ req'[c].status = 400
           /\ req'[c].appends = 0 /\ req'[c].tries = 0
           /\ UNCHANGED <<queue, cache, store>>)]_vars

C3_Witness ==
  \E c \in Clients :
    /\ req[c].op = "submit" /\ req[c].pc = "done" /\ req[c].status = 400
    /\ ClaimValidId(req[c].order_id)
    /\ req[c].amount = Num(999999, 99995)
    /\ Len(queue) > 0 /\ store # {}
    /\ \E k \in GoodIds : CacheHas(cache, k)

\* C4: a submit whose Cache lookup failed is still answered from the Store
\* check: rejected as a duplicate (409) or accepted with its event appended.
C4_CacheFailureFallsThrough ==
  \A c \in Clients :
    LET r == req[c]
    IN (/\ r.op = "submit" /\ r.pc = "done" /\ r.cacheFault
        /\ ~r.storeFault /\ ~r.queueFault)
       => (r.status = 409 \/ (r.status = 201 /\ r.appends = 1))

\* C5: a submit whose Store lookup failed (after a Cache miss) is not failed
\* by that fault: it goes on to append its event and is accepted.
C5_StoreFailureProceeds ==
  \A c \in Clients :
    LET r == req[c]
    IN (/\ r.op = "submit" /\ r.pc = "done" /\ r.storeFault
        /\ ~r.queueFault)
       => (r.status = 201 /\ r.appends = 1)

\* C5 as amended: a submit whose Store lookup failed ends at that step with
\* an infrastructure error (500); nothing is appended and Queue, Cache and
\* Store are unchanged.
C5_StoreFailureRejects ==
  [][\A c \in Clients :
       (/\ Steps(c) /\ req'[c].op = "submit" /\ req'[c].storeFault)
       => (/\ req[c].pc = "dbQuery" /\ req'[c].pc = "done"
           /\ req'[c].status = 500 /\ req'[c].appends = 0
           /\ req'[c].tries = 0
           /\ UNCHANGED <<queue, cache, store>>)]_vars

C5_Witness ==
  \E c \in Clients :
    /\ req[c].op = "submit" /\ req[c].pc = "done" /\ req[c].storeFault
    /\ req[c].status = 500
    /\ FindOrder(store, req[c].order_id) = {}
    /\ Len(queue) > 0 /\ store # {}

\* Time alone changed the cache: keys aged or expired, none written
Aged ==
  \A k \in DOMAIN cache :
    \/ cache'[k] = cache[k]
    \/ cache'[k].ttl < cache[k].ttl /\ cache'[k].val \in {cache[k].val, NoBody}

\* C6: the step that accepts a submit (201) appends exactly its one event;
\* no other step of a submit touches the Queue; no step of a submit writes
\* the Store or the Cache; the Store changes only in a worker step, the
\* Cache only in a worker step, a read-route step, or by keys ageing.
C6_AdmissionSideEffects ==
  [][/\ \A c \in Clients :
          (Steps(c) /\ req'[c].op = "submit")
          => /\ UNCHANGED <<cache, store>>
             /\ IF req'[c].pc = "done" /\ req'[c].status = 201
                THEN /\ queue' = Append(queue,
                                   [order_id |-> req'[c].order_id,
                                    amount |-> NumberToString(
                                                 req'[c].amount)])
                     /\ req'[c].appends = 1
                ELSE queue' = queue /\ req'[c].appends = 0
     /\ store' # store => wk' # wk
     /\ cache' # cache =>
          \/ wk' # wk
          \/ \E c \in Clients : Steps(c) /\ req'[c].op = "get"
          \/ Aged
     /\ queue' # queue =>
          \E c \in Clients : Steps(c) /\ req'[c].status = 201]_vars

C6_Witness ==
  \E c \in Clients :
    /\ req[c].op = "submit" /\ req[c].pc = "done" /\ req[c].status = 201
    /\ Len(queue) = 2 /\ store # {}
    /\ \E k \in GoodIds : CacheHas(cache, k)

\* C7: a failed Queue append ends the submit with an infrastructure error
\* (500), after that single attempt, with Queue, Cache and Store unchanged.
C7_QueueFailure ==
  [][\A c \in Clients :
       (/\ Steps(c) /\ req[c].op = "submit" /\ req[c].pc = "xadd"
        /\ (req'[c].queueFault \/ queue' = queue))
       => (/\ req'[c].pc = "done" /\ req'[c].status = 500
           /\ req'[c].queueFault
           /\ req'[c].tries = 1 /\ req'[c].appends = 0
           /\ UNCHANGED <<queue, cache, store>>)]_vars

C7_Witness ==
  \E c \in Clients :
    /\ req[c].op = "submit" /\ req[c].pc = "done" /\ req[c].queueFault
    /\ req[c].status = 500 /\ req[c].tries = 1
    /\ Len(queue) > 0 /\ store # {}

\* The Store holds a completed row for the order of queue entry i
Completed(i) ==
  /\ Len(queue) >= i
  /\ \E r \in FindOrder(store, queue[i].order_id) : r.status = "completed"

\* C2: with the worker loop kept running and no faults, every event an
\* accepted submit appended leads to a completed Store row for its order.
C2_EventualProcessing ==
  \A i \in 1..MaxQueue :
    (Len(queue) >= i /\ WellFormed(queue[i])) ~> Completed(i)

\* C8: the persist step applied twice or more to the same event leaves the
\* same amount, tax, total and status in the event's row as applying it
\* once, and the Store never holds two rows for one order_id.
C8_IdempotentPersist ==
  (probe.on /\ probe.applied >= 2) =>
    /\ \A id \in GoodIds : Cardinality(FindOrder(store, id)) <= 1
    /\ Cardinality(FindOrder(store, probe.event.order_id)) = 1
    /\ {Fields(r) : r \in FindOrder(store, probe.event.order_id)}
         = {Fields(r) : r \in FindOrder(probe.first, probe.event.order_id)}

C8_Witness ==
  /\ probe.on /\ probe.applied = 2
  /\ \E r \in FindOrder(probe.prior, probe.event.order_id) :
       /\ r.status = "failed"
       /\ r.order_id # probe.event.order_id
       /\ \A x \in FindOrder(store, probe.event.order_id) :
            x.amount # r.amount /\ x.status = "completed"

\* Nothing is in flight: every request answered, no worker inside a message
Quiescent ==
  /\ \A c \in Clients : req[c].pc \in {"idle", "done"}
  /\ \A w \in Workers : wk[w].pc \notin {"upsert", "setex"}

\* C9: once nothing is in flight, a Cache entry order:X carries the amount,
\* tax, total and status of the Store row for X.
C9_CacheStoreCoherence ==
  Quiescent =>
    \A id \in GoodIds :
      CacheHas(cache, id) =>
        \E r \in FindOrder(store, id) : Fields(cache[id].val) = Fields(r)

\* C10: a message whose processing has started (its upsert or its cache
\* write is pending) goes on to its cache write and to the next message:
\* the process does not exit meanwhile, and no call of the message is cut.
C10_ShutdownCompletesInFlight ==
  [][\A w \in Workers :
       wk[w].pc \in {"upsert", "setex"}
       => /\ sd'[w] # "exited"
          /\ wk'[w].pc \in {"upsert", "setex", "entry"}
          /\ wk'[w].consecutiveErrors = wk[w].consecutiveErrors]_vars

\* The rows the read route can have been handed for client c's order
RowsFor(c) == {enrichedOrder(x) : x \in FindOrder(store, req'[c].order_id)}

\* C11: a get whose Cache read, TTL refresh or Cache populate failed, with
\* the Store healthy, goes on to (or stays with) the Store's answer: after a
\* failed read or refresh the Store is queried, the answer is the Store row
\* with cache_hit false or not-found, and it is never an error.
C11_ReadAbsorbsCacheFaults ==
  [][\A c \in Clients :
       (/\ Steps(c) /\ req'[c].op = "get" /\ req'[c].cacheFault
        /\ ~req'[c].storeFault)
       => (/\ ~req'[c].hit
           /\ req'[c].pc = "done" => req'[c].status \in {200, 404}
           /\ req[c].pc \in {"gCacheGet", "gExpire"}
                => (req'[c].pc = "gDbQuery" /\ UNCHANGED <<cache, store>>)
           /\ req[c].pc = "gDbQuery"
                => IF RowsFor(c) = {}
                   THEN req'[c].pc = "done" /\ req'[c].status = 404
                   ELSE req'[c].pc = "gSetex" /\ req'[c].body \in RowsFor(c)
           /\ req[c].pc = "gSetex"
                => (/\ req'[c].pc = "done" /\ req'[c].status = 200
                    /\ req'[c].body = req[c].body
                    /\ store' = store))]_vars

C11_Witness ==
  \E c \in Clients :
    /\ req[c].op = "get" /\ req[c].pc = "done" /\ req[c].cacheFault
    /\ ~req[c].storeFault /\ req[c].status = 200 /\ ~req[c].hit
    /\ CacheHas(cache, req[c].order_id)
    /\ \E x \in FindOrder(store, req[c].order_id) :
         req[c].body = enrichedOrder(x)

\* C12: with the Cache healthy, a get that finds the key order:X goes to the
\* TTL refresh and not to the Store; the refresh puts the key's TTL back to
\* 3600 s if the key is still there, and the call ends with the cached record
\* and cache_hit true; the Store is neither queried nor changed.
C12_ReadCacheHit ==
  [][\A c \in Clients :
       (/\ Steps(c) /\ req'[c].op = "get" /\ ~req'[c].cacheFault)
       => LET id == req'[c].order_id
          IN /\ (req[c].pc = "gCacheGet" /\ CacheHas(cache, id))
                  => (/\ req'[c].pc = "gExpire"
                      /\ req'[c].body = cache[id].val
                      /\ UNCHANGED <<cache, store>>)
             /\ req[c].pc = "gExpire"
                  => (/\ req'[c].pc = "done" /\ req'[c].status = 200
                      /\ req'[c].hit /\ ~req'[c].storeFault
                      /\ req'[c].body = req[c].body
                      /\ store' = store
                      /\ \A k \in DOMAIN cache :
                           cache'[k] =
                             IF k = id /\ CacheHas(cache, k)
                             THEN [val |-> cache[k].val, ttl |-> CacheTtl]
                             ELSE cache[k])
             /\ req'[c].hit => req[c].pc = "gExpire"]_vars

C12_Witness ==
  \E c \in Clients :
    /\ req[c].op = "get" /\ req[c].pc = "done" /\ req[c].hit
    /\ req[c].status = 200 /\ ~req[c].cacheFault
    /\ cache[req[c].order_id] = [val |-> req[c].body, ttl |-> CacheTtl]
    /\ req[c].body.status = "completed"

\* C13: with the Cache healthy, a get that finds no key order:X queries the
\* Store; with no row it ends not-found (404) and the Cache is unchanged;
\* with a row it ends 200 with that row and cache_hit false, and leaves the
\* key order:X holding that row with a TTL of 3600 s.
C13_ReadCacheMiss ==
  [][\A c \in Clients :
       (/\ Steps(c) /\ req'[c].op = "get" /\ ~req'[c].cacheFault
        /\ ~req'[c].storeFault)
       => LET id == req'[c].order_id
          IN /\ (req[c].pc = "gCacheGet" /\ ~CacheHas(cache, id))
                  => (req'[c].pc = "gDbQuery" /\ UNCHANGED <<cache, store>>)
             /\ req[c].pc = "gDbQuery"
                  => (/\ UNCHANGED <<cache, store>>
                      /\ IF RowsFor(c) = {}
                         THEN /\ req'[c].pc = "done" /\ req'[c].status = 404
                              /\ ~req'[c].hit
                         ELSE /\ req'[c].pc = "gSetex"
                              /\ req'[c].body \in RowsFor(c))
             /\ req[c].pc = "gSetex"
                  => (/\ req'[c].pc = "done" /\ req'[c].status = 200
                      /\ ~req'[c].hit /\ req'[c].body = req[c].body
                      /\ store' = store
                      /\ cache' = [cache EXCEPT ![id] =
                                     [val |-> req[c].body,
                                      ttl |-> CacheTtl]])]_vars

C13_Witness ==
  \E c \in Clients :
    /\ req[c].op = "get" /\ req[c].pc = "done" /\ req[c].status = 200
    /\ ~req[c].hit /\ ~req[c].cacheFault
    /\ cache[req[c].order_id] = [val |-> req[c].body, ttl |-> CacheTtl]
    /\ \E x \in FindOrder(store, req[c].order_id) :
         Fields(req[c].body) = Fields(x)

\* round(a * 0.18, 4) in exact decimal arithmetic, ties away from zero
RoundedTax(a) ==
  LET t == a.w * 1800 + ((a.f * 18 + 500) \div 1000)
  IN Num(t \div 10000, (t % 10000) * 10)

FourDigits(a) == a.k = "num" /\ a.f % 10 = 0

TaxHolds(x) ==
  FourDigits(x.amount)
  => (x.tax = RoundedTax(x.amount) /\ x.total = Plus(x.amount, x.tax))

\* C14: every Store row and every Cache entry the worker wrote for an amount
\* of four fractional digits has tax = round(amount * 0.18, 4) and
\* total = amount + tax, exactly, in units of 1/10000.
C14_TaxArithmetic ==
  /\ \A r \in store : TaxHolds(r)
  /\ \A k \in DOMAIN cache : CacheHas(cache, k) => TaxHolds(cache[k].val)

\* Worker w moves in this step
Moves(w) == wk'[w] # wk[w]

\* Worker w is at the head of the for loop with a message of the batch left
AtEntry(w) == wk[w].pc = "entry" /\ wk[w].idx <= wk[w].hi

\* C15: a malformed entry (no order_id, no amount, or an amount that is not
\* finite or not positive) is passed over in one step: the loop moves to the
\* next entry of the same batch, the consecutive-error counter and the
\* backoff are untouched, Store and Cache are unchanged; and no upsert or
\* cache write is ever issued for a malformed entry.
C15_MalformedEntrySkipped ==
  [][\A w \in Workers :
       /\ (Moves(w) /\ AtEntry(w) /\ ~WellFormed(queue[wk[w].idx]))
            => (/\ wk'[w] = [wk[w] EXCEPT !.idx = wk[w].idx + 1]
                /\ UNCHANGED <<store, cache>>)
       /\ wk'[w].pc \in {"upsert", "setex"}
            => WellFormed(queue[wk'[w].idx])]_vars

C15_Witness ==
  \E w \in Workers :
    /\ wk[w].pc = "entry" /\ wk[w].pos = 0 /\ wk[w].hi = 2 /\ wk[w].idx = 3
    /\ Len(queue) = 2 /\ ~WellFormed(queue[1]) /\ WellFormed(queue[2])
    /\ wk[w].consecutiveErrors = 0
    /\ \E r \in FindOrder(store, queue[2].order_id) : r.status = "completed"
    /\ CacheHas(cache, queue[2].order_id)

\* C16: a message whose upsert or cache write throws does not end the batch:
\* while a well-formed message of the batch is still to come, the step that
\* ends a message's upsert or cache write leaves the loop inside that batch.
C16_ErrorIsolation ==
  [][\A w \in Workers :
       (/\ Moves(w) /\ wk[w].pc \in {"upsert", "setex"}
        /\ wk[w].idx < wk[w].hi /\ WellFormed(queue[wk[w].idx + 1]))
       => (/\ wk'[w].pc \in {"setex", "entry"}
           /\ wk'[w].hi = wk[w].hi
           /\ wk'[w].idx \in {wk[w].idx, wk[w].idx + 1})]_vars

\* C17: an entry whose upsert has been issued leads to a completed Store row
\* for its order: at once if the upsert succeeds, and otherwise because the
\* entry is read again and retried once the Store accepts writes.
C17_RetryAfterStoreFault ==
  \A w \in Workers : \A i \in 1..MaxQueue :
    (wk[w].pc = "upsert" /\ wk[w].idx = i) ~> Completed(i)

\* The loop-level catch has just counted an error of worker w
Counted(w) ==
  /\ wk'[w].consecutiveErrors = wk[w].consecutiveErrors + 1
  /\ IF wk'[w].consecutiveErrors >= 5
     THEN wk'[w].pc = "cooldown"
     ELSE wk'[w].pc = "backoff" /\ wk'[w].delay > 0

C19_WriteThroughSwallowed ==
  [][\A w \in Workers :
       (Moves(w) /\ wk[w].pc = "setex")
       => (/\ wk'[w].pc = "entry" /\ wk'[w].idx = wk[w].idx + 1
           /\ wk'[w].hi = wk[w].hi /\ wk'[w].delay = 0
           /\ wk'[w].consecutiveErrors <= wk[w].consecutiveErrors
           /\ store' = store)]_vars

\* C20: an iteration that ends without a loop-level error (the read timed
\* out empty, or the batch was walked to its end) leaves the
\* consecutive-error counter at 0.
C20_CounterReset ==
  [][\A w \in Workers :
       (/\ Moves(w) /\ wk[w].pc \in {"xread", "entry"}
        /\ wk'[w].pc = "loop")
       => wk'[w].consecutiveErrors = 0]_vars

\* A processOrders invocation of worker w is inside its while loop
Looping(w) == wk[w].pc \notin {"cooldown", "returned"}

\* C21: the step that takes the consecutive-error counter to 5 ends the loop
\* in that step with no backoff delay (into the 5 s restart cooldown, or for
\* good when shutdown has been requested), so no loop runs or sleeps with the
\* counter at 5; the cooldown ends in exactly one way: a fresh loop with the
\* counter at 0 when shutdown has not been requested, no loop at all when it
\* has; a loop starts only from an elapsed cooldown, where the previous loop
\* has ended, so a worker never has two; and whatever happened before, a
\* cooldown without shutdown can always end in a restart: nothing counts or
\* limits the restarts.
C21_CircuitBreaker ==
  /\ [][\A w \in Workers :
          /\ (wk'[w].consecutiveErrors = maxConsecutiveErrors
               /\ wk[w].consecutiveErrors # maxConsecutiveErrors)
               => /\ wk[w].consecutiveErrors = maxConsecutiveErrors - 1
                  /\ Looping(w) /\ wk'[w].delay = 0
                  /\ wk'[w].pc = IF isShuttingDown(w) THEN "returned"
                                 ELSE "cooldown"
          /\ (Moves(w) /\ wk[w].pc = "cooldown")
               => wk'[w] = IF isShuttingDown(w)
                           THEN [wk[w] EXCEPT !.pc = "returned"]
                           ELSE IdleWorker
          /\ (Moves(w) /\ ~Looping(w)
               /\ wk'[w].pc \notin {"cooldown", "returned"})
               => (wk[w].pc = "cooldown" /\ ~isShuttingDown(w))
          /\ wk[w].pc = "returned" => ~Moves(w)]_vars
  /\ [](\A w \in Workers :
          /\ wk[w].consecutiveErrors = maxConsecutiveErrors => ~Looping(w)
          /\ wk[w].pc = "cooldown"
               => wk[w].consecutiveErrors = maxConsecutiveErrors
          /\ (wk[w].pc = "cooldown" /\ Alive(w) /\ ~isShuttingDown(w))
               => ENABLED (WRestart(w) /\ wk'[w] = IdleWorker))

C21_Witness ==
  \E w \in Workers :
    /\ wk[w].pc = "cooldown" /\ wk[w].consecutiveErrors = maxConsecutiveErrors
    /\ wk[w].delay = 0 /\ ~isShuttingDown(w)
    /\ store # {} /\ wk[w].err = "xread"

\* The delays of the claim, in ms, by number of consecutive errors
SleptDelays == <<1000, 2000, 4000, 8000>>

\* C22: the consecutive-error counter stays within 0..5; a loop sleeps in
\* backoff only with a counter k of 1..4, and the delay it sleeps is the k-th
\* of 1000, 2000, 4000, 8000 ms, below the 30000 ms cap; the step into the
\* sleep is the one that counted the k-th error, the sleep ends at the top of
\* the loop with the counter kept, and a Queue read is issued only from
\* there.
C22_BackoffSchedule ==
  /\ [](\A w \in Workers :
          /\ wk[w].consecutiveErrors \in 0..maxConsecutiveErrors
          /\ wk[w].pc = "backoff"
               => /\ wk[w].consecutiveErrors \in 1..(maxConsecutiveErrors - 1)
                  /\ wk[w].delay = SleptDelays[wk[w].consecutiveErrors]
                  /\ wk[w].delay < BackoffCapMs
          /\ wk[w].pc # "backoff" => wk[w].delay = 0)
  /\ [][\A w \in Workers :
          /\ (Moves(w) /\ wk'[w].pc = "backoff")
               => wk'[w].consecutiveErrors = wk[w].consecutiveErrors + 1
          /\ (Moves(w) /\ wk[w].pc = "backoff")
               => /\ wk'[w].pc = "loop"
                  /\ wk'[w].consecutiveErrors = wk[w].consecutiveErrors
          /\ (Moves(w) /\ wk'[w].pc = "xread") => wk[w].pc = "loop"
          /\ (Moves(w) /\ wk'[w].consecutiveErrors > wk[w].consecutiveErrors
               /\ wk'[w].consecutiveErrors < maxConsecutiveErrors)
               => wk'[w].pc = "backoff"]_vars

C22_Witness ==
  \E w \in Workers :
    /\ wk[w].pc = "backoff" /\ wk[w].consecutiveErrors = 4
    /\ wk[w].delay = 8000

\* C23: once the shutdown flag of a worker is set, no step of its loop
\* issues a Queue read, moves to a further entry of the batch or issues its
\* upsert, arms the restart timer, or starts a loop again after the loop has
\* ended: whatever the loop was doing, it can only finish the call in
\* flight, leave a batch it has walked to its end, sleep out a backoff, and
\* return.
C23_NoNewWorkAfterShutdown ==
  [][\A w \in Workers :
       (isShuttingDown(w) /\ Moves(w))
       => /\ wk'[w].pc \notin {"xread", "entry", "upsert", "cooldown"}
          /\ wk'[w].idx <= wk[w].idx
          /\ ~Looping(w) => wk'[w].pc = "returned"
          /\ wk'[w].pc = "loop"
               => \/ wk[w].pc = "backoff"
                  \/ wk[w].pc = "entry" /\ wk[w].idx > wk[w].hi]_vars

C23_Witness ==
  \E w \in Workers :
    /\ isShuttingDown(w) /\ wk[w].pc = "returned"
    /\ wk[w].consecutiveErrors = 0 /\ Len(queue) = 2
    /\ FindOrder(store, queue[1].order_id) # {}
    /\ WellFormed(queue[2]) /\ FindOrder(store, queue[2].order_id) = {}

\* The Store one worker leaves that processes entries i.. of the Queue in
\* Queue order, starting from Store S
RECURSIVE InQueueOrder(_, _)
InQueueOrder(S, i) ==
  IF i > Len(queue) THEN S
  ELSE InQueueOrder(IF WellFormed(queue[i]) THEN Persist(S, queue[i]) ELSE S,
                    i + 1)

\* The rows of Store S by order key, with the fields the claims compare
RowsByOrder(S) == {[key |-> StoreKey(r.order_id), row |-> Fields(r)] : r \in S}

\* No request is in flight and every worker is at the top of its loop or
\* blocked in a read at the end of the Queue: no worker has an entry left
AllDrained ==
  /\ \A c \in Clients : req[c].pc \in {"idle", "done"}
  /\ \A w \in Workers :
       \/ wk[w].pc = "loop"
       \/ wk[w].pc = "xread" /\ wk[w].pos = Len(queue)

\* C24: once every worker has drained the Queue and every order in it has a
\* Store row, the Store holds for each order the one row (amount, tax,
\* total, status) that a single worker processing the Queue in order leaves.
C24_MultiWorkerConvergence ==
  (AllDrained /\ \A i \in 1..Len(queue) : Completed(i))
  => RowsByOrder(store) = RowsByOrder(InQueueOrder({}, 1))

\* C25: a Cache entry order:X exists only while the Store holds a row for X,
\* and every Cache entry carries status completed.
C25_CachePresenceImpliesStore ==
  \A id \in GoodIds :
    CacheHas(cache, id)
    => /\ FindOrder(store, id) # {}
       /\ cache[id].val.status = "completed"

C25_Witness ==
  /\ CacheHas(cache, IdLower) /\ CacheHas(cache, IdUpper)
  /\ Cardinality(store) = 1
  /\ cache[IdUpper].val.order_id = IdLower
  /\ \E w \in Workers : wk[w].err = "upsert"

====
